---- MODULE Spec2Model ----
(***************************************************************************)
(* The plot store of designer/: LightingPlot and PlotFixture rows, the     *)
(* Stage and LightFixture rows they reference, and the key-value cache in  *)
(* front of them, driven by the operations of PlotController,              *)
(* BaseController and StageController.                                     *)
(*                                                                         *)
(* Every handler is an operator from a store (a record of the tables and   *)
(* the cache) to its return value and the store it leaves behind; the      *)
(* actions apply the handlers to the state variables.                      *)
(*                                                                         *)
(* Representation: a row's identifier is its key in `plots`; the           *)
(* PlotFixture table is kept as one sequence of rows per plot identifier,  *)
(* in insertion (identifier) order, a plot without rows having no entry.   *)
(* Python's None is the record None for objects, the empty sequence for    *)
(* nullable columns (date, channel, dimmer), and 0 for an absent plot      *)
(* identifier.  The updated_at column of LightingPlot is kept as the order *)
(* it induces: the sequence of the stored plots' identifiers from the most *)
(* recently saved to the least.  `categories` is the Category table, the   *)
(* parent of a row being the parent's identifier or 0 for none, and        *)
(* `fixtureCategory` the category column of the LightFixture rows, 0 for   *)
(* NULL.  `procs` holds the calls in progress where a call is followed     *)
(* statement by statement: for each caller its position and local values.  *)
(* `registries` is the state of ServiceRegistry and PresenterRegistry: what *)
(* each lazily filled attribute holds (0 for None, else the number of the   *)
(* object among those built for it), how many objects were built for it,    *)
(* and which objects its getter has returned.                               *)
(***************************************************************************)
EXTENDS Integers, Sequences, FiniteSets, TLC

VARIABLES plots, plotFixtures, stages, lightFixtures, nextPlotId, cache,
          updated_at, categories, nextCategoryId, fixtureCategory,
          procs, registries, last, lastFixtures

vars == <<plots, plotFixtures, stages, lightFixtures, nextPlotId, cache,
          updated_at, categories, nextCategoryId, fixtureCategory,
          procs, registries, last, lastFixtures>>

\* Number of plot identifiers the storage hands out before creation stops.
MaxPlots == 2

\* Number of category identifiers handed out before creation stops.
MaxCategories == 3

PlotIds == 1..MaxPlots
Users == {1, 2}
InitialStages == {1}
InitialLightFixtures == {1}
CategoryNames == {"Spots", "Washes"}
ElementTypes == {"fixture", "pipe"}

None == [none |-> TRUE]

\* What a call yields when an exception leaves it
Raised == [raised |-> TRUE]

\* What a list-all accessor yields when it returns: the rows of its QuerySet
Returned(rows) == [raised |-> FALSE, rows |-> rows]
Empty == [k \in {} |-> 0]

Has(d, k) == k \in DOMAIN d
Get(d, k, default) == IF k \in DOMAIN d THEN d[k] ELSE default

(***************************************************************************)
(* The cache: a function from the keys present to their values.            *)
(***************************************************************************)
\* The plot key without the user: one entry per plot, whoever read it.
PlotKeyShared(plot_id, user) == [kind |-> "plot_id", plot |-> plot_id, user |-> 0]

PlotKey(plot_id, user) == [kind |-> "plot_id", plot |-> plot_id, user |-> user]
UserPlotsKey(user) == [kind |-> "user_plots", plot |-> 0, user |-> user]
EditorContextKey(plot_id, user) == [kind |-> "editor_context", plot |-> plot_id, user |-> user]
PlotDataKey(plot_id, user) == [kind |-> "plot_data", plot |-> plot_id, user |-> user]
NewPlotContextKey(user) == [kind |-> "editor_new_plot_context", plot |-> 0, user |-> user]
ModelKey(model, instance_id) == [kind |-> model, plot |-> instance_id, user |-> 0]

CacheGet(c, key) == IF key \in DOMAIN c THEN c[key] ELSE None
CacheSet(c, key, value) == [k \in DOMAIN c \cup {key} |-> IF k = key THEN value ELSE c[k]]
CacheDelete(c, key) == [k \in DOMAIN c \ {key} |-> c[k]]

(***************************************************************************)
(* Storage.                                                                *)
(***************************************************************************)
Store == [plots |-> plots, plotFixtures |-> plotFixtures, stages |-> stages,
          lightFixtures |-> lightFixtures, nextPlotId |-> nextPlotId, cache |-> cache,
          updated_at |-> updated_at]

\* The order of updated_at without the plots `plot_ids`, and with `plot_id`
\* saved now (auto_now=True)
WithoutPlots(order, plot_ids) == SelectSeq(order, LAMBDA p : p \notin plot_ids)
Touch(order, plot_id) == <<plot_id>> \o WithoutPlots(order, {plot_id})

\* PlotFixture.objects.filter(plot=plot), and plot.fixtures.all()
FixturesOf(rows, plot_id) == IF plot_id \in DOMAIN rows THEN rows[plot_id] ELSE <<>>

\* The rows of the fixture types kept: only those of the plots go.
FilterFixturesByPlot(rows, plot_ids, fixture_ids) ==
    LET left == [p \in DOMAIN rows |-> SelectSeq(rows[p], LAMBDA r : r.plot \notin plot_ids)]
    IN  [p \in {q \in DOMAIN rows : left[q] # <<>>} |-> left[p]]

\* The table without the rows of the plots `plot_ids` and without the rows of
\* the fixture types `fixture_ids`
FilterFixtures(rows, plot_ids, fixture_ids) ==
    LET keep(r) == r.plot \notin plot_ids /\ r.fixture_type \notin fixture_ids
        left == [p \in DOMAIN rows |-> SelectSeq(rows[p], keep)]
    IN  [p \in {q \in DOMAIN rows : left[q] # <<>>} |-> left[p]]

\* The delete left out: the rows of the plot stay.
KeepFixturesOf(rows, plot_id) == rows

\* PlotFixture.objects.filter(plot=plot).delete()
DeleteFixturesOf(rows, plot_id) == FilterFixtures(rows, {plot_id}, {})

\* plot_fixture.save() of a new row
InsertFixture(rows, row) == (row.plot :> Append(FixturesOf(rows, row.plot), row)) @@ rows

\* self.model.objects.get(id=instance_id) of BaseController, for LightingPlot;
\* None stands for DoesNotExist
DbGetById(ps, instance_id) ==
    IF instance_id \in DOMAIN ps THEN ps[instance_id] ELSE None

\* The lookup without the user filter.
DbGetPlotAnyUser(ps, plot_id, user) == DbGetById(ps, plot_id)

\* LightingPlot.objects.get(id=plot_id, user=user)
DbGetPlot(ps, plot_id, user) ==
    IF plot_id \in DOMAIN ps /\ ps[plot_id].user = user THEN ps[plot_id] ELSE None

\* The row alone, as under on_delete=DO_NOTHING.
PlotDeleteNoCascade(st, plot_id) ==
    [st EXCEPT !.plots = [p \in DOMAIN st.plots \ {plot_id} |-> st.plots[p]],
               !.updated_at = WithoutPlots(@, {plot_id})]

\* plot.delete(): the row and, by on_delete=CASCADE, its PlotFixture rows
PlotDelete(st, plot_id) ==
    [st EXCEPT !.plots = [p \in DOMAIN st.plots \ {plot_id} |-> st.plots[p]],
               !.plotFixtures = DeleteFixturesOf(st.plotFixtures, plot_id),
               !.updated_at = WithoutPlots(@, {plot_id})]

\* LightingPlot(user=user, stage=stage): an unsaved instance with the field defaults
NewPlot(user, stage) ==
    [id |-> 0, user |-> user, stage |-> stage, title |-> "", show_name |-> "",
     venue |-> "", designer |-> "", date |-> <<>>, plot_data |-> Empty]

\* A save that numbers a new row by the count of the rows stored.
PlotSaveCountId(st, plot) ==
    LET id == IF plot.id = 0 THEN Cardinality(DOMAIN st.plots) + 1 ELSE plot.id
        saved == [plot EXCEPT !.id = id]
    IN  [raised |-> FALSE, plot |-> saved,
         st |-> [st EXCEPT !.plots = (id :> saved) @@ @,
                           !.nextPlotId = IF plot.id = 0 THEN @ + 1 ELSE @,
                           !.updated_at = Touch(@, id)]]

(***************************************************************************)
(* plot.save().  An instance without a primary key is inserted under the   *)
(* next identifier.  An instance with one is written by UPDATE of every    *)
(* column; when no row has that key (the instance came from a cache entry  *)
(* that outlived its row) the ORM falls back to INSERT under the same key, *)
(* which the foreign key to Stage rejects when the stage is gone.          *)
(***************************************************************************)
PlotSave(st, plot) ==
    IF plot.id = 0
    THEN LET saved == [plot EXCEPT !.id = st.nextPlotId] IN
         [raised |-> FALSE, plot |-> saved,
          st |-> [st EXCEPT !.plots = (st.nextPlotId :> saved) @@ @,
                            !.nextPlotId = @ + 1,
                            !.updated_at = Touch(@, st.nextPlotId)]]
    ELSE IF plot.id \in DOMAIN st.plots \/ plot.stage \in st.stages
    THEN [raised |-> FALSE, plot |-> plot,
          st |-> [st EXCEPT !.plots = (plot.id :> plot) @@ @,
                            !.updated_at = Touch(@, plot.id)]]
    ELSE [raised |-> TRUE, plot |-> plot, st |-> st]

(***************************************************************************)
(* PlotController                                                          *)
(***************************************************************************)
get_plot_by_id(st, plot_id, user, use_cache) ==
    LET cache_key == PlotKey(plot_id, user)
        cached_plot == IF use_cache THEN CacheGet(st.cache, cache_key) ELSE None
        plot == DbGetPlot(st.plots, plot_id, user)
    IN  IF cached_plot # None THEN [ret |-> cached_plot, st |-> st]
        ELSE IF plot = None THEN [ret |-> None, st |-> st]
        ELSE [ret |-> plot,
              st |-> IF use_cache
                     THEN [st EXCEPT !.cache = CacheSet(@, cache_key, plot)]
                     ELSE st]

\* PlotFixture(plot=plot, fixture_type=fixture_type, x_position=..., ...): the
\* row built from one entry of the fixture list, absent keys taking the defaults
NewPlotFixture(plot, fixture_data) ==
    [plot |-> plot.id,
     fixture_type |-> fixture_data.fixture_id,
     x_position |-> Get(fixture_data, "x", 0),
     y_position |-> Get(fixture_data, "y", 0),
     z_position |-> 0,
     rotation |-> Get(fixture_data, "rotation", 0),
     channel |-> Get(fixture_data, "channel", <<>>),
     dimmer |-> Get(fixture_data, "dimmer", <<>>),
     circuit |-> "",
     color |-> Get(fixture_data, "color", ""),
     purpose |-> Get(fixture_data, "purpose", ""),
     notes |-> Get(fixture_data, "notes", "")]

\* The loop of _add_fixtures_to_plot: each entry is looked up and saved in turn;
\* an entry whose fixture type does not resolve raises and ends the loop, the
\* rows saved before it staying in the table.
RECURSIVE _add_fixtures_to_plot(_, _, _)
_add_fixtures_to_plot(st, plot, fixtures_data) ==
    IF fixtures_data = <<>>
    THEN [raised |-> FALSE, st |-> st]
    ELSE LET fixture_data == Head(fixtures_data) IN
         IF ~Has(fixture_data, "fixture_id")
            \/ fixture_data.fixture_id \notin st.lightFixtures
         THEN [raised |-> TRUE, st |-> st]
         ELSE _add_fixtures_to_plot(
                  [st EXCEPT !.plotFixtures = InsertFixture(@, NewPlotFixture(plot, fixture_data))],
                  plot, Tail(fixtures_data))

\* The field assignments with the stage taken from the payload as well.
SetPlotFieldsAndStage(plot, plot_data) ==
    [plot EXCEPT !.stage = Get(plot_data, "stage_id", @),
                 !.title = Get(plot_data, "title", "Untitled Plot"),
                 !.show_name = Get(plot_data, "show_name", @),
                 !.venue = Get(plot_data, "venue", @),
                 !.designer = Get(plot_data, "designer", @),
                 !.date = Get(plot_data, "date", @),
                 !.plot_data = Get(plot_data, "plot_data", @)]

\* "Update plot fields" of create_or_update_plot
SetPlotFields(plot, plot_data) ==
    [plot EXCEPT !.title = Get(plot_data, "title", "Untitled Plot"),
                 !.show_name = Get(plot_data, "show_name", @),
                 !.venue = Get(plot_data, "venue", @),
                 !.designer = Get(plot_data, "designer", @),
                 !.date = Get(plot_data, "date", @),
                 !.plot_data = Get(plot_data, "plot_data", @)]

\* "Clear cache for this plot and user" of create_or_update_plot
ClearPlotCache(st, plot_id, user) ==
    [st EXCEPT !.cache = CacheDelete(CacheDelete(@, PlotKey(plot_id, user)),
                                     UserPlotsKey(user))]

\* The replacement run on every save of a stored plot, list or no list.
FixturesProvidedOrUpdate(plot_data) ==
    Has(plot_data, "plot_id") \/ (Has(plot_data, "fixtures") /\ plot_data.fixtures # <<>>)

\* 'fixtures' in plot_data and plot_data['fixtures']
FixturesProvided(plot_data) == Has(plot_data, "fixtures") /\ plot_data.fixtures # <<>>

\* "Handle fixtures if provided" of create_or_update_plot
ReplaceFixtures(st, plot, created, fixtures_data) ==
    _add_fixtures_to_plot(
        IF created THEN st
        ELSE [st EXCEPT !.plotFixtures = DeleteFixturesOf(@, plot.id)],
        plot, fixtures_data)

\* Returns the plot (or None), the created flag, whether an exception left the
\* method, and the store as the method leaves it.
create_or_update_plot(st, plot_data, user) ==
    LET plot_id == Get(plot_data, "plot_id", 0)
        created == plot_id = 0
        got == get_plot_by_id(st, plot_id, user, TRUE)
        stage_found == Has(plot_data, "stage_id") /\ plot_data.stage_id \in st.stages
        plot == IF created THEN NewPlot(user, plot_data.stage_id) ELSE got.ret
        saved == PlotSave(IF created THEN st ELSE got.st, SetPlotFields(plot, plot_data))
        cleared == ClearPlotCache(saved.st, saved.plot.id, user)
        replaced == ReplaceFixtures(cleared, saved.plot, created,
                                    Get(plot_data, "fixtures", <<>>))
    IN  IF ~created /\ got.ret = None
        THEN [ret |-> None, created |-> FALSE, raised |-> FALSE, st |-> st]
        ELSE IF created /\ ~stage_found
        THEN [ret |-> None, created |-> TRUE, raised |-> TRUE, st |-> st]
        ELSE IF saved.raised
        THEN [ret |-> None, created |-> created, raised |-> TRUE, st |-> saved.st]
        ELSE IF ~FixturesProvided(plot_data)
        THEN [ret |-> saved.plot, created |-> created, raised |-> FALSE, st |-> cleared]
        ELSE [ret |-> IF replaced.raised THEN None ELSE saved.plot,
              created |-> created, raised |-> replaced.raised, st |-> replaced.st]

delete_plot(st, plot_id, user) ==
    LET got == get_plot_by_id(st, plot_id, user, FALSE)
        deleted == PlotDelete(st, plot_id)
    IN  IF got.ret = None
        THEN [ret |-> FALSE, st |-> st]
        ELSE [ret |-> TRUE,
              st |-> [deleted EXCEPT !.cache =
                         CacheDelete(CacheDelete(CacheDelete(CacheDelete(@,
                             PlotKey(plot_id, user)), UserPlotsKey(user)),
                             EditorContextKey(plot_id, user)), PlotDataKey(plot_id, user))]]

\* Meta.ordering = ['channel'] of PlotFixture: a query of the rows lists them by
\* channel, a NULL channel first and rows of equal channel in identifier order
\* (SQLite, the backend Django configures by default).
ChannelLeq(a, b) ==
    a.channel = <<>> \/ (b.channel # <<>> /\ a.channel[1] <= b.channel[1])

InsertByChannel(sorted, r) ==
    LET k == Cardinality({i \in 1..Len(sorted) : ChannelLeq(sorted[i], r)})
    IN  SubSeq(sorted, 1, k) \o <<r>> \o SubSeq(sorted, k + 1, Len(sorted))

RECURSIVE OrderByChannel(_)
OrderByChannel(rows) ==
    IF rows = <<>> THEN <<>>
    ELSE InsertByChannel(OrderByChannel(SubSeq(rows, 1, Len(rows) - 1)), rows[Len(rows)])

\* One record of fixtures_data, without the row identifier (rows carry none
\* here); the lookup fixture.fixture_type.id raises for a row whose fixture type
\* is gone, and the row is then left out.
FixtureRecord(r) ==
    [fixture_id |-> r.fixture_type, x |-> r.x_position, y |-> r.y_position,
     rotation |-> r.rotation, channel |-> r.channel, dimmer |-> r.dimmer,
     color |-> r.color, purpose |-> r.purpose, notes |-> r.notes]

RECURSIVE FixtureRecords(_, _)
FixtureRecords(rows, types) ==
    IF rows = <<>> THEN <<>>
    ELSE IF Head(rows).fixture_type \in types
    THEN <<FixtureRecord(Head(rows))>> \o FixtureRecords(Tail(rows), types)
    ELSE FixtureRecords(Tail(rows), types)

\* plot.stage.id queries the Stage row; when it is gone the outer handler
\* returns None.  The records are listed in the order of plot.fixtures.all().
get_plot_with_fixtures(st, plot_id, user) ==
    LET got == get_plot_by_id(st, plot_id, user, TRUE)
        plot == got.ret
    IN  IF plot = None \/ plot.stage \notin st.stages
        THEN [ret |-> None, st |-> got.st]
        ELSE [ret |-> [plot |-> [id |-> plot.id, title |-> plot.title,
                                 stage_id |-> plot.stage, show_name |-> plot.show_name,
                                 venue |-> plot.venue, designer |-> plot.designer,
                                 date |-> plot.date, plot_data |-> plot.plot_data],
                       fixtures |-> FixtureRecords(
                                       OrderByChannel(FixturesOf(got.st.plotFixtures, plot.id)),
                                       got.st.lightFixtures)],
              st |-> got.st]

(***************************************************************************)
(* PlotPresenter.handle_plot_save                                          *)
(***************************************************************************)
\* A title the validator rejects: one of more than 200 characters.
LongTitle == "a title of 201 characters"

\* The fields validate_request_data reports: the required ones that are absent
\* or empty and, when there is none, a title the validator rejects.
validate_request_data(data, required_fields) ==
    LET missing == {f \in required_fields :
                       ~Has(data, f) \/ (f = "title" /\ data[f] = "")}
    IN  IF missing = {} /\ Has(data, "title") /\ data.title = LongTitle
        THEN {"title"} ELSE missing

handle_plot_save(st, plot_data, user) ==
    LET required_fields ==
            {"title"} \cup (IF Get(plot_data, "plot_id", 0) = 0 THEN {"stage_id"} ELSE {})
        errors == validate_request_data(plot_data, required_fields)
        saved == create_or_update_plot(st, plot_data, user)
    IN  IF errors # {}
        THEN [success |-> FALSE, status |-> 400, error |-> "Validation failed",
              data |-> errors, st |-> st]
        ELSE IF saved.raised
        THEN [success |-> FALSE, status |-> 500,
              error |-> "An error occurred while saving the plot", data |-> {}, st |-> saved.st]
        ELSE IF saved.ret = None
        THEN [success |-> FALSE, status |-> 400, error |-> "Failed to save plot",
              data |-> {}, st |-> saved.st]
        ELSE [success |-> TRUE, status |-> 200, error |-> "", data |-> {saved.ret.id},
              st |-> [saved.st EXCEPT !.cache =
                         CacheDelete(CacheDelete(@, EditorContextKey(saved.ret.id, user)),
                                     UserPlotsKey(user))]]

(***************************************************************************)
(* The cached reads of PlotPresenter.  cache.set pickles the value, which  *)
(* evaluates a QuerySet in it: a cached listing is the rows as they were   *)
(* when it was stored.  An entry holding None reads as a missing one, in   *)
(* cache_view_data as in get_plot_by_id, and is not kept.  When data_func   *)
(* raises, cache_view_data calls it once more outside the try, and the      *)
(* exception of that second call leaves cache_view_data; nothing is cached. *)
(***************************************************************************)
\* LightingPlot.objects.filter(user=user), listed by Meta.ordering = ['-updated_at']
get_plots_for_user(st, user) ==
    LET mine == SelectSeq(st.updated_at, LAMBDA p : st.plots[p].user = user)
    IN  [i \in 1..Len(mine) |-> st.plots[mine[i]]]

\* The miss not handled: whatever the cache holds is returned.
CacheViewDataNoLoad(st, key, loaded) == [ret |-> CacheGet(st.cache, key), st |-> st]

\* `loaded` is what data_func returns, and the store it leaves, when it runs.
cache_view_data(st, key, loaded) ==
    LET cached_data == CacheGet(st.cache, key) IN
    IF cached_data # None THEN [ret |-> cached_data, st |-> st]
    ELSE [ret |-> loaded.ret,
          st |-> IF loaded.ret \in {None, Raised} THEN loaded.st
                 ELSE [loaded.st EXCEPT !.cache = CacheSet(@, key, loaded.ret)]]

get_plot_data(st, plot_id, user) ==
    cache_view_data(st, PlotDataKey(plot_id, user), get_plot_with_fixtures(st, plot_id, user))

\* The StageTemplate table, which no operation here writes
InitialTemplates == {"front wash"}

\* FixtureController.get_all_fixtures, which is BaseController.get_all
get_all_fixtures(st) == Returned(st.lightFixtures)

\* TemplateController.get_all_templates
get_all_templates(st) == Returned(InitialTemplates)

\* StageController.get_all_stages: StageController.__init__ passes no model to
\* BaseController.__init__, so self.model is None and self.model.objects
\* raises AttributeError, whatever the table holds.
get_all_stages(st) == Raised

\* StageController.get_stage_by_id and TemplateController.get_template_by_id:
\* the row, or None for DoesNotExist
get_stage_by_id(st, stage_id) ==
    IF stage_id \in st.stages THEN [id |-> stage_id] ELSE None

get_template_by_id(st, template_id) ==
    IF template_id \in InitialTemplates THEN [id |-> template_id] ELSE None

\* FixtureController.get_fixture_by_id, which is BaseController.get_by_id with
\* use_cache=True: a cached instance, or the row, which is then cached, or None
get_fixture_by_id(st, fixture_category, fixture_id) ==
    LET cached_instance == CacheGet(st.cache, ModelKey("lightfixture", fixture_id))
        instance == [id |-> fixture_id, category |-> fixture_category[fixture_id]]
    IN  IF cached_instance # None THEN [ret |-> cached_instance, st |-> st]
        ELSE IF fixture_id \in st.lightFixtures
        THEN [ret |-> instance,
              st |-> [st EXCEPT !.cache =
                         CacheSet(@, ModelKey("lightfixture", fixture_id), instance)]]
        ELSE [ret |-> None, st |-> st]

\* load_editor_data of get_editor_context; plot_id = 0 is the editor of a new
\* plot.  The exception of get_all_stages leaves it after the plot was looked up.
load_editor_data(st, plot_id, user) ==
    LET got == IF plot_id # 0 THEN get_plot_by_id(st, plot_id, user, TRUE)
               ELSE [ret |-> None, st |-> st]
    IN  [ret |-> IF get_all_stages(got.st) = Raised THEN Raised
                 ELSE (IF got.ret # None THEN [plot |-> got.ret] ELSE Empty)
                      @@ [fixtures |-> get_all_fixtures(got.st).rows,
                          templates |-> get_all_templates(got.st).rows,
                          stages |-> get_all_stages(got.st).rows],
         st |-> got.st]

get_editor_context(st, plot_id, user) ==
    cache_view_data(st,
                    IF plot_id # 0 THEN EditorContextKey(plot_id, user)
                    ELSE NewPlotContextKey(user),
                    load_editor_data(st, plot_id, user))

get_user_plots_context(st, user) ==
    cache_view_data(st, UserPlotsKey(user),
                    [ret |-> [plots |-> get_plots_for_user(st, user)], st |-> st])

(***************************************************************************)
(* BaseController.delete, as PlotController and FixtureController inherit  *)
(* it, and StageController.delete_stage.                                   *)
(***************************************************************************)
base_delete_plot(st, instance_id) ==
    IF DbGetById(st.plots, instance_id) = None
    THEN [ret |-> FALSE, st |-> st]
    ELSE [ret |-> TRUE,
          st |-> [PlotDelete(st, instance_id) EXCEPT !.cache =
                     CacheDelete(@, ModelKey("lightingplot", instance_id))]]

delete_fixture(st, fixture_id) ==
    IF fixture_id \notin st.lightFixtures
    THEN [ret |-> FALSE, st |-> st]
    ELSE [ret |-> TRUE,
          st |-> [st EXCEPT !.lightFixtures = @ \ {fixture_id},
                            !.plotFixtures =
                                FilterFixtures(@, {}, {fixture_id}),
                            !.cache = CacheDelete(@, ModelKey("lightfixture", fixture_id))]]

delete_stage(st, stage_id) ==
    LET kept == {p \in DOMAIN st.plots : st.plots[p].stage # stage_id} IN
    IF stage_id \notin st.stages
    THEN [ret |-> FALSE, st |-> st]
    ELSE [ret |-> TRUE,
          st |-> [st EXCEPT !.stages = @ \ {stage_id},
                            !.plots = [p \in kept |-> st.plots[p]],
                            !.plotFixtures = FilterFixtures(@, DOMAIN st.plots \ kept, {}),
                            !.updated_at = WithoutPlots(@, DOMAIN st.plots \ kept)]]

(***************************************************************************)
(* Category, as the admin site writes it: the change form runs             *)
(* full_clean() on the instance, which calls clean(), checks               *)
(* unique_together and saves only when neither objects.                    *)
(***************************************************************************)
\* The walk that looks at the chosen parent alone.
CleanWalkOneStep(cats, self_id, parent, steps) ==
    IF parent # 0 /\ parent = self_id
    THEN "Circular reference detected in category hierarchy"
    ELSE "ok"

\* The walk of clean() up the stored parents from the parent chosen: it ends
\* at a row without a parent, or on meeting the instance itself; a walk that
\* has made more steps than there are rows is on a cycle and never ends.
RECURSIVE CleanWalk(_, _, _, _)
CleanWalk(cats, self_id, parent, steps) ==
    IF parent = 0 THEN "ok"
    ELSE IF parent = self_id THEN "Circular reference detected in category hierarchy"
    ELSE IF steps = 0 THEN "diverges"
    ELSE CleanWalk(cats, self_id, cats[parent].parent, steps - 1)

\* clean() without the walk: only the element type of the parent is compared.
CleanTypeOnly(cats, self) ==
    IF self.parent # 0 /\ cats[self.parent].element_type # self.element_type
    THEN "Parent category must be of the same element type"
    ELSE "ok"

\* Category.clean(): the message of the ValidationError raised, or "ok"
clean(cats, self) ==
    IF self.parent # 0 /\ cats[self.parent].element_type # self.element_type
    THEN "Parent category must be of the same element type"
    ELSE CleanWalk(cats, self.id, self.parent, Cardinality(DOMAIN cats))

\* unique_together = ['name', 'parent', 'element_type']; the check is skipped
\* for an instance without a parent, a NULL taking part in no comparison
validate_unique(cats, self) ==
    IF /\ self.parent # 0
       /\ \E c \in DOMAIN cats \ {self.id} :
              /\ cats[c].name = self.name
              /\ cats[c].parent = self.parent
              /\ cats[c].element_type = self.element_type
    THEN "Category with this Name, Parent and Element type already exists."
    ELSE "ok"

\* The add form (self.id = 0) and the change form of CategoryAdmin
category_save(cats, next_id, self) ==
    LET cleaned == clean(cats, self)
        error == IF cleaned # "ok" THEN cleaned ELSE validate_unique(cats, self)
        id == IF self.id = 0 THEN next_id ELSE self.id
    IN  IF error # "ok"
        THEN [error |-> error, categories |-> cats, nextCategoryId |-> next_id]
        ELSE [error |-> "ok",
              categories |-> (id :> [self EXCEPT !.id = id]) @@ cats,
              nextCategoryId |-> IF self.id = 0 THEN next_id + 1 ELSE next_id]

\* The rows a delete collects: the row and, by on_delete=CASCADE of parent,
\* every row below it
RECURSIVE Collect(_, _)
Collect(cats, ids) ==
    LET more == ids \cup {c \in DOMAIN cats : cats[c].parent \in ids}
    IN  IF more = ids THEN ids ELSE Collect(cats, more)

\* The reference nulled for the row deleted, not for the rows deleted below it.
CategoryDeleteNullsOwn(cats, fixture_category, id) ==
    [categories |-> [c \in DOMAIN cats \ Collect(cats, {id}) |-> cats[c]],
     fixtureCategory |-> [f \in DOMAIN fixture_category |->
                             IF fixture_category[f] = id THEN 0 ELSE fixture_category[f]]]

\* The delete view of CategoryAdmin; on_delete=SET_NULL of LightFixture.category
category_delete(cats, fixture_category, id) ==
    LET gone == Collect(cats, {id}) IN
    [categories |-> [c \in DOMAIN cats \ gone |-> cats[c]],
     fixtureCategory |-> [f \in DOMAIN fixture_category |->
                             IF fixture_category[f] \in gone THEN 0
                             ELSE fixture_category[f]]]

\* The loop of get_ancestors: the parents from the nearest up; as in clean()
\* a walk longer than the table is on a cycle and never returns.
RECURSIVE AncestorsWalk(_, _, _)
AncestorsWalk(cats, parent, steps) ==
    IF parent = 0 THEN [terminates |-> TRUE, ancestors |-> <<>>]
    ELSE IF steps = 0 THEN [terminates |-> FALSE, ancestors |-> <<>>]
    ELSE LET rest == AncestorsWalk(cats, cats[parent].parent, steps - 1)
         IN  [terminates |-> rest.terminates, ancestors |-> <<parent>> \o rest.ancestors]

get_ancestors(cats, id) == AncestorsWalk(cats, cats[id].parent, Cardinality(DOMAIN cats))

\* Meta.ordering = ['element_type', 'order', 'name'] of Category, as
\* self.children.all() lists the children: `order` is left at its default, and
\* rows equal in element type and name come in identifier order.
OrderRank(cat) ==
    <<IF cat.element_type = "fixture" THEN 1 ELSE 2, IF cat.name = "Spots" THEN 1 ELSE 2, cat.id>>

OrderedBefore(a, b) ==
    \/ OrderRank(a)[1] < OrderRank(b)[1]
    \/ OrderRank(a)[1] = OrderRank(b)[1] /\ OrderRank(a)[2] < OrderRank(b)[2]
    \/ OrderRank(a)[1] = OrderRank(b)[1] /\ OrderRank(a)[2] = OrderRank(b)[2] /\ a.id < b.id

\* self.children.all(): the identifiers of the rows whose parent is `id`
Children(cats, id) ==
    LET kids == {c \in DOMAIN cats : cats[c].parent = id}
        place(c) == 1 + Cardinality({d \in kids : OrderedBefore(cats[d], cats[c])})
    IN  [i \in 1..Cardinality(kids) |-> CHOOSE c \in kids : place(c) = i]

\* The children alone, without those below them.
ChildrenOnly(cats, ids, depth) == ids

\* The loop of get_descendants over a list of children: each child, then its
\* own descendants.  A recursion deeper than the table is on a cycle, where
\* the method does not return.
RECURSIVE DescendantsOf(_, _, _)
DescendantsOf(cats, ids, depth) ==
    IF ids = <<>> \/ depth = 0 THEN <<>>
    ELSE <<Head(ids)>> \o DescendantsOf(cats, Children(cats, Head(ids)), depth - 1)
                      \o DescendantsOf(cats, Tail(ids), depth)

get_descendants(cats, id) == DescendantsOf(cats, Children(cats, id), Cardinality(DOMAIN cats))

\* FixtureController.update_fixture(fixture_id, {'category': category}), which
\* is BaseController.update: the row is read past the cache, saved, and the
\* instance put in the cache
update_fixture(st, fixture_category, fixture_id, category) ==
    LET instance == [id |-> fixture_id, category |-> category] IN
    IF fixture_id \notin st.lightFixtures
    THEN [ret |-> None, st |-> st, fixtureCategory |-> fixture_category]
    ELSE [ret |-> instance,
          st |-> [st EXCEPT !.cache = CacheSet(@, ModelKey("lightfixture", fixture_id), instance)],
          fixtureCategory |-> [fixture_category EXCEPT ![fixture_id] = category]]

(***************************************************************************)
(* Inputs.                                                                 *)
(***************************************************************************)
FixtureA == [fixture_id |-> 1, x |-> 1, y |-> 2, channel |-> <<5>>]
FixtureB == [fixture_id |-> 1, x |-> 3, y |-> 3]
FixtureMissing == [fixture_id |-> 9, x |-> 4, y |-> 4]

FixtureLists ==
    { <<>>, <<FixtureA>>, <<FixtureB, FixtureA>>,
      <<FixtureMissing>>, <<FixtureA, FixtureMissing>> }

\* What a payload carries besides its identifiers: scalar fields alone, a
\* fixture list alone, or both.
FullScalars ==
    [title |-> "Act I", show_name |-> "Show", venue |-> "Main", designer |-> "Dee",
     date |-> <<"2024-05-01">>, plot_data |-> [rig |-> "A"]]

ScalarParts == {Empty, [venue |-> "Hall A"], FullScalars}

Bodies ==
    ScalarParts
    \cup {[fixtures |-> l] : l \in FixtureLists}
    \cup {FullScalars @@ [fixtures |-> <<FixtureA, FixtureMissing>>]}

\* Saves of an existing plot, saves that create one, and payloads without a
\* plot identifier whose stage is absent or not stored.
UpdatePayloads == {[plot_id |-> p] @@ b : p \in PlotIds, b \in Bodies}

CreatePayloads == {[stage_id |-> g] @@ b : g \in InitialStages, b \in Bodies}

StagelessPayloads == {[title |-> "Act I"], [title |-> "Act I", stage_id |-> 2]}

Payloads == UpdatePayloads \cup CreatePayloads \cup StagelessPayloads

(***************************************************************************)
(* ServiceRegistry and PresenterRegistry.  Every getter has one shape: if  *)
(* the attribute is None, build the object and assign it; return the       *)
(* attribute.  No getter takes a lock.                                      *)
(***************************************************************************)
\* The lazily filled attributes: _instance of the two classes and the four
\* attributes of each registry object
Attributes ==
    {"PresenterRegistry._instance", "ServiceRegistry._instance",
     "_plot_presenter", "_fixture_presenter", "_stage_presenter", "_template_presenter",
     "_plot_controller", "_fixture_controller", "_stage_controller", "_template_controller"}

getter_begin(attribute) == [pc |-> "check", attribute |-> attribute, ret |-> 0]

\* One statement of a getter: the test `is None`, the construction with the
\* assignment, and the return, which reads the attribute again.
getter_step(reg, proc) ==
    LET a == proc.attribute IN
    CASE proc.pc = "check" ->
             [proc |-> [proc EXCEPT !.pc = IF reg.slot[a] = 0 THEN "construct" ELSE "return"],
              reg |-> reg]
      [] proc.pc = "construct" ->
             [proc |-> [proc EXCEPT !.pc = "return"],
              reg |-> [reg EXCEPT !.created[a] = @ + 1, !.slot[a] = reg.created[a] + 1]]
      [] proc.pc = "return" ->
             [proc |-> [proc EXCEPT !.pc = "done", !.ret = reg.slot[a]],
              reg |-> [reg EXCEPT !.returned[a] = @ \cup {reg.slot[a]}]]

\* A getter run from its first statement to its return with no other caller
\* in between
RECURSIVE RunGetter(_, _)
RunGetter(reg, proc) ==
    IF proc.pc = "done" THEN reg
    ELSE RunGetter(getter_step(reg, proc).reg, getter_step(reg, proc).proc)

\* The getters initialize_registry calls, in the order they return: the
\* constructor of a presenter calls ServiceRegistry.get_instance and the
\* getters of its controllers before the presenter is assigned.
ImportOrder ==
    <<"PresenterRegistry._instance",
      "ServiceRegistry._instance", "_plot_controller", "_fixture_controller",
      "_stage_controller", "_template_controller", "_plot_presenter",
      "ServiceRegistry._instance", "_fixture_controller", "_fixture_presenter",
      "ServiceRegistry._instance", "_stage_controller", "_stage_presenter",
      "ServiceRegistry._instance", "_template_controller", "_template_presenter">>

RECURSIVE RunGetters(_, _)
RunGetters(reg, attributes) ==
    IF attributes = <<>> THEN reg
    ELSE RunGetters(RunGetter(reg, getter_begin(Head(attributes))), Tail(attributes))

\* The import of the package without the call of initialize_registry.
InitializeNothing(reg) == [reg EXCEPT !.imported = TRUE]

\* designer/presenters/__init__.py: importing the package runs
\* initialize_registry().  The import system runs a module body once, in one
\* thread, every other importer waiting for it.
initialize_registry(reg) == [RunGetters(reg, ImportOrder) EXCEPT !.imported = TRUE]

(***************************************************************************)
(* State machine.                                                          *)
(***************************************************************************)
ApplyStore(st) ==
    /\ plots' = st.plots
    /\ plotFixtures' = st.plotFixtures
    /\ stages' = st.stages
    /\ lightFixtures' = st.lightFixtures
    /\ nextPlotId' = st.nextPlotId
    /\ cache' = st.cache
    /\ updated_at' = st.updated_at
    /\ fixtureCategory' = [f \in st.lightFixtures |-> fixtureCategory[f]]
    /\ UNCHANGED <<categories, nextCategoryId, registries>>

\* A call that runs from its first statement to its return in one step.
Apply(st) == ApplyStore(st) /\ UNCHANGED procs

\* What the last operation was and, for a save and for delete_plot, what it
\* returned and whether the identifier given named a stored plot of another
\* user (`foreign`); for a save that returned a plot and carried a non-empty fixture
\* list `plot` is that plot's identifier, and `repeat` tells that the operation
\* before it was such a save of the same plot with the same list; for a
\* delete_plot that removed a plot with placed fixtures `plot` is that plot.
Did(op, ret, foreign, plot, repeat) ==
    [op |-> op, ret |-> ret, foreign |-> foreign, plot |-> plot, repeat |-> repeat]

Foreign(plot_id, user) == plot_id \in DOMAIN plots /\ plots[plot_id].user # user

\* A read records whether it ran against an empty cache and found something.
ColdRead(ret) == IF cache = Empty /\ ret # None THEN "cold" ELSE ""

\* A delete records whether it took placed fixtures with it.
Cascaded(st) == IF st.plotFixtures # plotFixtures THEN "cascaded" ELSE ""

CreateOrUpdatePlot(plot_data, user) ==
    \E r \in {create_or_update_plot(Store, plot_data, user)} :
    LET plot_id == Get(plot_data, "plot_id", 0)
        replaced == ~r.raised /\ r.ret # None /\ FixturesProvided(plot_data)
    IN  /\ plot_id # 0 \/ nextPlotId <= MaxPlots
        /\ Apply(r.st)
        /\ lastFixtures' = IF replaced THEN plot_data.fixtures ELSE <<>>
        /\ last' = Did("create_or_update_plot",
                       IF r.raised THEN "raised"
                       ELSE IF r.ret = None THEN "not_found"
                       ELSE IF r.created THEN "created" ELSE "updated",
                       Foreign(plot_id, user),
                       IF replaced THEN r.ret.id ELSE 0,
                       /\ replaced
                       /\ last.op = "create_or_update_plot"
                       /\ last.plot = r.ret.id
                       /\ lastFixtures = plot_data.fixtures)

DeletePlot(plot_id, user) ==
    \E r \in {delete_plot(Store, plot_id, user)} :
    /\ Apply(r.st)
    /\ lastFixtures' = <<>>
    /\ last' = Did("delete_plot", IF r.ret THEN "true" ELSE "false",
                   Foreign(plot_id, user),
                   IF r.ret /\ plot_id \in DOMAIN plotFixtures THEN plot_id ELSE 0, FALSE)

GetPlotById(plot_id, user) ==
    \E r \in {get_plot_by_id(Store, plot_id, user, TRUE)} :
    /\ Apply(r.st)
    /\ lastFixtures' = <<>>
    /\ last' = Did("get_plot_by_id", "", FALSE, 0, FALSE)

GetPlotWithFixtures(plot_id, user) ==
    \E r \in {get_plot_with_fixtures(Store, plot_id, user)} :
    /\ Apply(r.st)
    /\ lastFixtures' = <<>>
    /\ last' = Did("get_plot_with_fixtures", ColdRead(r.ret), FALSE, 0, FALSE)

BaseDeletePlot(instance_id) ==
    \E r \in {base_delete_plot(Store, instance_id)} :
    /\ Apply(r.st)
    /\ lastFixtures' = <<>>
    /\ last' = Did("delete", "", FALSE, 0, FALSE)

DeleteFixture(fixture_id) ==
    \E r \in {delete_fixture(Store, fixture_id)} :
    /\ Apply(r.st)
    /\ lastFixtures' = <<>>
    /\ last' = Did("delete_fixture", Cascaded(r.st), FALSE, 0, FALSE)

DeleteStage(stage_id) ==
    \E r \in {delete_stage(Store, stage_id)} :
    /\ Apply(r.st)
    /\ lastFixtures' = <<>>
    /\ last' = Did("delete_stage", Cascaded(r.st), FALSE, 0, FALSE)

\* An entry reaches its timeout (the cache_timeout given to cache.set).
CacheExpire(key) ==
    /\ key \in DOMAIN cache
    /\ cache' = CacheDelete(cache, key)
    /\ lastFixtures' = <<>>
    /\ last' = Did("expire", "", FALSE, 0, FALSE)
    /\ UNCHANGED <<plots, plotFixtures, stages, lightFixtures, nextPlotId, updated_at,
                   categories, nextCategoryId, fixtureCategory, procs, registries>>

TypeOK ==
    /\ nextPlotId \in 1..(MaxPlots + 1)
    /\ DOMAIN plots \subseteq PlotIds
    /\ DOMAIN plotFixtures \subseteq PlotIds
    /\ \A p \in DOMAIN plotFixtures : plotFixtures[p] # <<>>
    /\ \A p \in DOMAIN plots : plots[p].id = p /\ plots[p].user \in Users
    /\ stages \subseteq InitialStages
    /\ lightFixtures \subseteq InitialLightFixtures
    /\ {updated_at[i] : i \in 1..Len(updated_at)} = DOMAIN plots
    /\ Len(updated_at) = Cardinality(DOMAIN plots)
    /\ nextCategoryId \in 1..(MaxCategories + 1)
    /\ DOMAIN categories \subseteq 1..MaxCategories
    /\ \A c \in DOMAIN categories :
           /\ categories[c].id = c
           /\ categories[c].parent \in {0} \cup DOMAIN categories
           /\ categories[c].name \in CategoryNames
           /\ categories[c].element_type \in ElementTypes
    /\ DOMAIN fixtureCategory = lightFixtures
    /\ \A f \in lightFixtures : fixtureCategory[f] \in {0} \cup DOMAIN categories

Init ==
    /\ plots = Empty
    /\ plotFixtures = Empty
    /\ stages = InitialStages
    /\ lightFixtures = InitialLightFixtures
    /\ nextPlotId = 1
    /\ cache = Empty
    /\ updated_at = <<>>
    /\ categories = Empty
    /\ nextCategoryId = 1
    /\ fixtureCategory = [f \in InitialLightFixtures |-> 0]
    /\ procs = Empty
    /\ registries = [imported |-> FALSE, slot |-> [a \in Attributes |-> 0],
                     created |-> [a \in Attributes |-> 0],
                     returned |-> [a \in Attributes |-> {}]]
    /\ last = Did("init", "", FALSE, 0, FALSE)
    /\ lastFixtures = <<>>

Next ==
    \/ \E plot_data \in Payloads, user \in Users : CreateOrUpdatePlot(plot_data, user)
    \/ \E plot_id \in PlotIds, user \in Users : DeletePlot(plot_id, user)
    \/ \E plot_id \in PlotIds, user \in Users : GetPlotById(plot_id, user)
    \/ \E plot_id \in PlotIds, user \in Users : GetPlotWithFixtures(plot_id, user)
    \/ \E plot_id \in PlotIds : BaseDeletePlot(plot_id)
    \/ \E fixture_id \in InitialLightFixtures : DeleteFixture(fixture_id)
    \/ \E stage_id \in InitialStages : DeleteStage(stage_id)
    \/ \E key \in DOMAIN cache : CacheExpire(key)

Spec == Init /\ [][Next]_vars

(***************************************************************************)
(* The catalog: the add, change and delete forms of CategoryAdmin and the  *)
(* category of a fixture type set through FixtureController.               *)
(***************************************************************************)
PlotsUnchanged ==
    UNCHANGED <<plots, plotFixtures, stages, lightFixtures, nextPlotId, updated_at,
                procs, registries, lastFixtures>>

\* `id` = 0 is the add form; the change form edits a stored row.  The parent
\* is chosen among the stored rows.
CategorySave(id, name, parent, element_type) ==
    /\ IF id = 0 THEN nextCategoryId <= MaxCategories ELSE id \in DOMAIN categories
    /\ parent \in {0} \cup DOMAIN categories
    /\ \E r \in {category_save(categories, nextCategoryId,
                               [id |-> id, name |-> name, parent |-> parent,
                                element_type |-> element_type])} :
           /\ categories' = r.categories
           /\ nextCategoryId' = r.nextCategoryId
           /\ last' = Did("category_save", r.error, FALSE, id, FALSE)
           /\ UNCHANGED <<fixtureCategory, cache>>
           /\ PlotsUnchanged

CategoryDelete(id) ==
    /\ id \in DOMAIN categories
    /\ \E r \in {category_delete(categories, fixtureCategory, id)} :
           /\ categories' = r.categories
           /\ fixtureCategory' = r.fixtureCategory
           /\ last' = Did("category_delete",
                          IF r.fixtureCategory = fixtureCategory THEN ""
                          ELSE IF \E f \in lightFixtures : fixtureCategory[f] = id
                          THEN "nulled" ELSE "nulled below",
                          FALSE, id, FALSE)
           /\ UNCHANGED <<nextCategoryId, cache>>
           /\ PlotsUnchanged

UpdateFixture(fixture_id, category) ==
    \E r \in {update_fixture(Store, fixtureCategory, fixture_id, category)} :
    /\ category \in DOMAIN categories
    /\ cache' = r.st.cache
    /\ fixtureCategory' = r.fixtureCategory
    /\ last' = Did("update_fixture", "", FALSE, 0, FALSE)
    /\ UNCHANGED <<categories, nextCategoryId>>
    /\ PlotsUnchanged

CategoryNext ==
    \/ \E id \in 0..MaxCategories, name \in CategoryNames,
          parent \in 0..MaxCategories, element_type \in ElementTypes :
           CategorySave(id, name, parent, element_type)
    \/ \E id \in 1..MaxCategories : CategoryDelete(id)
    \/ \E fixture_id \in InitialLightFixtures, category \in 1..MaxCategories :
           UpdateFixture(fixture_id, category)

CategorySpec == Init /\ [][CategoryNext]_vars

(***************************************************************************)
(* The views: saves through PlotPresenter.handle_plot_save and the cached  *)
(* reads of the presenter, with delete_plot and get_plot_by_id of the      *)
(* controller beside them.                                                 *)
(***************************************************************************)
\* Number of plots created in a run of the views.
MaxViewPlots == 1

ViewPayloads ==
    { [stage_id |-> 1, title |-> "Act I"],
      [stage_id |-> 1, title |-> "Act I", fixtures |-> <<FixtureA>>] }
    \cup UNION { { [plot_id |-> p, title |-> "Act II", venue |-> "Hall A"],
                   [plot_id |-> p, title |-> "Act I", fixtures |-> <<FixtureB, FixtureA>>] }
                 : p \in 1..MaxViewPlots }

HandlePlotSave(plot_data, user) ==
    \E r \in {handle_plot_save(Store, plot_data, user)} :
    /\ Has(plot_data, "plot_id") \/ nextPlotId <= MaxViewPlots
    /\ Apply(r.st)
    /\ lastFixtures' = <<>>
    /\ last' = Did("handle_plot_save",
                   IF r.success THEN "saved" ELSE "failed",
                   Foreign(Get(plot_data, "plot_id", 0), user), 0, FALSE)

GetPlotData(plot_id, user) ==
    \E r \in {get_plot_data(Store, plot_id, user)} :
    /\ Apply(r.st)
    /\ lastFixtures' = <<>>
    /\ last' = Did("get_plot_data", ColdRead(r.ret), FALSE, 0, FALSE)

GetEditorContext(plot_id, user) ==
    \E r \in {get_editor_context(Store, plot_id, user)} :
    /\ Apply(r.st)
    /\ lastFixtures' = <<>>
    /\ last' = Did("get_editor_context", "", FALSE, 0, FALSE)

GetUserPlotsContext(user) ==
    \E r \in {get_user_plots_context(Store, user)} :
    /\ Apply(r.st)
    /\ lastFixtures' = <<>>
    /\ last' = Did("get_user_plots_context",
                   IF cache = Empty /\ r.ret.plots # <<>> THEN "cold" ELSE "",
                   FALSE, 0, FALSE)

ViewNext ==
    \/ \E plot_data \in ViewPayloads, user \in Users : HandlePlotSave(plot_data, user)
    \/ \E plot_id \in 1..MaxViewPlots, user \in Users : DeletePlot(plot_id, user)
    \/ \E plot_id \in 1..MaxViewPlots, user \in Users : GetPlotById(plot_id, user)
    \/ \E plot_id \in 1..MaxViewPlots, user \in Users : GetPlotData(plot_id, user)
    \/ \E plot_id \in 0..MaxViewPlots, user \in Users : GetEditorContext(plot_id, user)
    \/ \E user \in Users : GetUserPlotsContext(user)
    \/ \E key \in DOMAIN cache : CacheExpire(key)

ViewSpec == Init /\ [][ViewNext]_vars

(***************************************************************************)
(* The listing page: my_plots reads get_user_plots_context while plots are  *)
(* saved through the presenter and removed by delete_plot, by               *)
(* BaseController.delete and by delete_stage.                               *)
(***************************************************************************)
ListingPayloads ==
    {[stage_id |-> 1, title |-> "Act I"]}
    \cup {[plot_id |-> p, title |-> "Act II"] : p \in PlotIds}

ListingSave(plot_data, user) ==
    \E r \in {handle_plot_save(Store, plot_data, user)} :
    /\ Has(plot_data, "plot_id") \/ nextPlotId <= MaxPlots
    /\ Apply(r.st)
    /\ lastFixtures' = <<>>
    /\ last' = Did("handle_plot_save",
                   IF r.success THEN "saved" ELSE "failed",
                   FALSE, Get(plot_data, "plot_id", 0), FALSE)

ListingNext ==
    \/ \E plot_data \in ListingPayloads, user \in Users : ListingSave(plot_data, user)
    \/ \E plot_id \in PlotIds, user \in Users : DeletePlot(plot_id, user)
    \/ \E instance_id \in PlotIds : BaseDeletePlot(instance_id)
    \/ \E stage_id \in InitialStages : DeleteStage(stage_id)
    \/ \E user \in Users : GetUserPlotsContext(user)

ListingSpec == Init /\ [][ListingNext]_vars

(***************************************************************************)
(* get_plot_with_fixtures followed statement by statement, while fixture    *)
(* types are deleted: the plot is looked up and its rows are fetched, each  *)
(* row is formatted in turn (fixture.fixture_type queries the LightFixture  *)
(* row at that moment), and the result is built.                            *)
(***************************************************************************)
\* The lookup of the plot and the evaluation of plot.fixtures.all()
read_begin(st, plot_id, user) ==
    LET got == get_plot_by_id(st, plot_id, user, TRUE)
        rows == IF got.ret = None THEN <<>>
                ELSE OrderByChannel(FixturesOf(got.st.plotFixtures, got.ret.id))
    IN  [proc |-> [pc |-> IF got.ret = None THEN "done" ELSE "format",
                   plot |-> got.ret, fetched |-> rows, next |-> 1,
                   fixtures_data |-> <<>>, failed |-> {}, ret |-> None],
         st |-> got.st]

\* A failing row ends the whole read.
FormatFixtureAbort(proc, types) ==
    LET fixture == proc.fetched[proc.next] IN
    IF fixture.fixture_type \in types
    THEN [proc EXCEPT !.fixtures_data = Append(@, FixtureRecord(fixture)), !.next = @ + 1]
    ELSE [proc EXCEPT !.pc = "done", !.failed = @ \cup {proc.next}, !.ret = None]

\* One pass of the loop: the record is appended, or the lookup of the fixture
\* type raises, the inner handler logs it and the loop goes on.
format_fixture(proc, types) ==
    LET fixture == proc.fetched[proc.next] IN
    IF fixture.fixture_type \in types
    THEN [proc EXCEPT !.fixtures_data = Append(@, FixtureRecord(fixture)), !.next = @ + 1]
    ELSE [proc EXCEPT !.failed = @ \cup {proc.next}, !.next = @ + 1]

\* The scalar part of the result
PlotRecord(plot) ==
    [id |-> plot.id, title |-> plot.title, stage_id |-> plot.stage,
     show_name |-> plot.show_name, venue |-> plot.venue, designer |-> plot.designer,
     date |-> plot.date, plot_data |-> plot.plot_data]

\* After the loop: plot.stage.id queries the Stage row, and the outer handler
\* returns None when it is gone.
read_finish(proc, stored_stages) ==
    [proc EXCEPT !.pc = "done",
                 !.ret = IF proc.plot.stage \in stored_stages
                         THEN [plot |-> PlotRecord(proc.plot), fixtures |-> proc.fixtures_data]
                         ELSE None]

Reading == "read" \in DOMAIN procs /\ procs["read"].pc = "format"

ReadBegin(plot_id, user) ==
    /\ ~Reading
    /\ \E r \in {read_begin(Store, plot_id, user)} :
           /\ ApplyStore(r.st)
           /\ procs' = [read |-> r.proc]
    /\ lastFixtures' = <<>>
    /\ last' = Did("read_begin", "", FALSE, plot_id, FALSE)

ReadFormat ==
    /\ Reading
    /\ procs["read"].next <= Len(procs["read"].fetched)
    /\ procs' = [read |-> format_fixture(procs["read"], lightFixtures)]
    /\ lastFixtures' = <<>>
    /\ last' = Did("read_format", "", FALSE, 0, FALSE)
    /\ UNCHANGED <<plots, plotFixtures, stages, lightFixtures, nextPlotId, cache,
                   updated_at, categories, nextCategoryId, fixtureCategory, registries>>

ReadFinish ==
    /\ Reading
    /\ procs["read"].next > Len(procs["read"].fetched)
    /\ procs' = [read |-> read_finish(procs["read"], stages)]
    /\ lastFixtures' = <<>>
    /\ last' = Did("read_finish", "", FALSE, 0, FALSE)
    /\ UNCHANGED <<plots, plotFixtures, stages, lightFixtures, nextPlotId, cache,
                   updated_at, categories, nextCategoryId, fixtureCategory, registries>>

ReadPayloads ==
    {[stage_id |-> 1, title |-> "Act I", fixtures |-> l] :
        l \in {<<FixtureA>>, <<FixtureB, FixtureA>>}}

ReadNext ==
    \/ \E plot_data \in ReadPayloads, user \in Users : CreateOrUpdatePlot(plot_data, user)
    \/ \E plot_id \in PlotIds, user \in Users : ReadBegin(plot_id, user)
    \/ ReadFormat
    \/ ReadFinish
    \/ \E fixture_id \in InitialLightFixtures : DeleteFixture(fixture_id)

ReadSpec == Init /\ [][ReadNext]_vars

(***************************************************************************)
(* create_or_update_plot of a stored plot followed statement by statement, *)
(* for two requests at once.  Nothing in the method or in the views opens  *)
(* a transaction or takes a lock, so every statement that reads or writes  *)
(* storage or the cache is a step of its own.                               *)
(***************************************************************************)
save_begin(plot_data, user) ==
    [pc |-> "get", plot_data |-> plot_data, user |-> user, plot |-> None,
     rest |-> <<>>, ret |-> ""]

\* One statement of the update branch: the lookup of the plot and the field
\* assignments on the instance, plot.save(), the cache deletes, the delete of
\* the plot's rows, and one pass of the loop of _add_fixtures_to_plot.
save_step(st, proc) ==
    LET got == get_plot_by_id(st, proc.plot_data.plot_id, proc.user, TRUE)
        saved == PlotSave(st, proc.plot)
        fixture_data == Head(proc.rest)
    IN  CASE proc.pc = "get" ->
                 IF got.ret = None
                 THEN [proc |-> [proc EXCEPT !.pc = "done", !.ret = "not_found"], st |-> got.st]
                 ELSE [proc |-> [proc EXCEPT !.pc = "save",
                                             !.plot = SetPlotFields(got.ret, proc.plot_data)],
                       st |-> got.st]
          [] proc.pc = "save" ->
                 IF saved.raised
                 THEN [proc |-> [proc EXCEPT !.pc = "done", !.ret = "raised"], st |-> saved.st]
                 ELSE [proc |-> [proc EXCEPT !.pc = "clear"], st |-> saved.st]
          [] proc.pc = "clear" ->
                 [proc |-> IF FixturesProvided(proc.plot_data)
                           THEN [proc EXCEPT !.pc = "delete"]
                           ELSE [proc EXCEPT !.pc = "done", !.ret = "updated"],
                  st |-> ClearPlotCache(st, proc.plot.id, proc.user)]
          [] proc.pc = "delete" ->
                 [proc |-> [proc EXCEPT !.pc = "add", !.rest = proc.plot_data.fixtures],
                  st |-> [st EXCEPT !.plotFixtures = DeleteFixturesOf(@, proc.plot.id)]]
          [] proc.pc = "add" ->
                 IF ~Has(fixture_data, "fixture_id")
                    \/ fixture_data.fixture_id \notin st.lightFixtures
                 THEN [proc |-> [proc EXCEPT !.pc = "done", !.ret = "raised"], st |-> st]
                 ELSE [proc |-> [proc EXCEPT !.rest = Tail(@),
                                             !.pc = IF Tail(proc.rest) = <<>> THEN "done" ELSE @,
                                             !.ret = IF Tail(proc.rest) = <<>> THEN "updated" ELSE @],
                       st |-> [st EXCEPT !.plotFixtures =
                                  InsertFixture(@, NewPlotFixture(proc.plot, fixture_data))]]

\* The two requests
Savers == {"a", "b"}

\* What the requests carry: every scalar field and a fixture list
SaverPayloads ==
    { FullScalars @@ [plot_id |-> 1, fixtures |-> <<FixtureA>>],
      [title |-> "Act II", show_name |-> "Tour", venue |-> "Hall A", designer |-> "Kim",
       date |-> <<"2024-06-01">>, plot_data |-> [rig |-> "B"],
       plot_id |-> 1, fixtures |-> <<FixtureB>>] }

SaveBegin(saver, plot_data, user) ==
    /\ saver \notin DOMAIN procs
    /\ plot_data.plot_id \in DOMAIN plots
    /\ procs' = (saver :> save_begin(plot_data, user)) @@ procs
    /\ lastFixtures' = <<>>
    /\ last' = Did("save_begin", "", FALSE, plot_data.plot_id, FALSE)
    /\ UNCHANGED <<plots, plotFixtures, stages, lightFixtures, nextPlotId, cache,
                   updated_at, categories, nextCategoryId, fixtureCategory, registries>>

SaveStep(saver) ==
    /\ saver \in DOMAIN procs
    /\ procs[saver].pc # "done"
    /\ \E r \in {save_step(Store, procs[saver])} :
           /\ ApplyStore(r.st)
           /\ procs' = [procs EXCEPT ![saver] = r.proc]
    /\ lastFixtures' = <<>>
    /\ last' = Did("save_step", "", FALSE, 0, FALSE)

SaveNext ==
    \/ \E plot_data \in ReadPayloads : (procs = Empty /\ CreateOrUpdatePlot(plot_data, 1))
    \/ \E saver \in Savers, plot_data \in SaverPayloads : SaveBegin(saver, plot_data, 1)
    \/ \E saver \in Savers : SaveStep(saver)

SaveSpec == Init /\ [][SaveNext]_vars

(***************************************************************************)
(* A cached get_plot_by_id followed statement by statement beside a save   *)
(* and a delete_plot of the same plot by the same user.                     *)
(***************************************************************************)
lookup_begin(plot_id, user) ==
    [pc |-> "cache_get", plot_id |-> plot_id, user |-> user, plot |-> None, ret |-> None]

\* get_plot_by_id with use_cache=True: cache.get, LightingPlot.objects.get and
\* cache.set, one statement a step
lookup_step(st, proc) ==
    LET cache_key == PlotKey(proc.plot_id, proc.user)
        cached_plot == CacheGet(st.cache, cache_key)
        plot == DbGetPlot(st.plots, proc.plot_id, proc.user)
    IN  CASE proc.pc = "cache_get" ->
                 [proc |-> IF cached_plot # None
                           THEN [proc EXCEPT !.pc = "done", !.ret = cached_plot]
                           ELSE [proc EXCEPT !.pc = "db_get"],
                  st |-> st]
          [] proc.pc = "db_get" ->
                 [proc |-> IF plot = None THEN [proc EXCEPT !.pc = "done"]
                           ELSE [proc EXCEPT !.pc = "cache_set", !.plot = plot],
                  st |-> st]
          [] proc.pc = "cache_set" ->
                 [proc |-> [proc EXCEPT !.pc = "done", !.ret = proc.plot],
                  st |-> [st EXCEPT !.cache = CacheSet(@, cache_key, proc.plot)]]

delete_begin(plot_id, user) ==
    [pc |-> "get", plot_id |-> plot_id, user |-> user, ret |-> ""]

\* delete_plot: the lookup past the cache, plot.delete(), and the cache deletes
delete_step(st, proc) ==
    CASE proc.pc = "get" ->
             [proc |-> IF DbGetPlot(st.plots, proc.plot_id, proc.user) = None
                       THEN [proc EXCEPT !.pc = "done", !.ret = "false"]
                       ELSE [proc EXCEPT !.pc = "delete"],
              st |-> st]
      [] proc.pc = "delete" ->
             [proc |-> [proc EXCEPT !.pc = "clear"], st |-> PlotDelete(st, proc.plot_id)]
      [] proc.pc = "clear" ->
             [proc |-> [proc EXCEPT !.pc = "done", !.ret = "true"],
              st |-> [st EXCEPT !.cache =
                         CacheDelete(CacheDelete(CacheDelete(CacheDelete(@,
                             PlotKey(proc.plot_id, proc.user)), UserPlotsKey(proc.user)),
                             EditorContextKey(proc.plot_id, proc.user)),
                             PlotDataKey(proc.plot_id, proc.user))]]

Begin(name, proc) ==
    /\ name \notin DOMAIN procs
    /\ proc.plot_id \in DOMAIN plots
    /\ procs' = (name :> proc) @@ procs
    /\ lastFixtures' = <<>>
    /\ last' = Did("begin", name, FALSE, proc.plot_id, FALSE)
    /\ UNCHANGED <<plots, plotFixtures, stages, lightFixtures, nextPlotId, cache,
                   updated_at, categories, nextCategoryId, fixtureCategory, registries>>

LookupStep ==
    /\ "reader" \in DOMAIN procs
    /\ procs["reader"].pc # "done"
    /\ \E r \in {lookup_step(Store, procs["reader"])} :
           /\ ApplyStore(r.st)
           /\ procs' = [procs EXCEPT !["reader"] = r.proc]
    /\ lastFixtures' = <<>>
    /\ last' = Did("lookup_step", "", FALSE, 0, FALSE)

DeleteStep ==
    /\ "deleter" \in DOMAIN procs
    /\ procs["deleter"].pc # "done"
    /\ \E r \in {delete_step(Store, procs["deleter"])} :
           /\ ApplyStore(r.st)
           /\ procs' = [procs EXCEPT !["deleter"] = r.proc]
    /\ lastFixtures' = <<>>
    /\ last' = Did("delete_step", "", FALSE, 0, FALSE)

RaceNext ==
    \/ \E plot_data \in ReadPayloads : (procs = Empty /\ CreateOrUpdatePlot(plot_data, 1))
    \/ Begin("reader", lookup_begin(1, 1))
    \/ LookupStep
    \/ \E plot_data \in SaverPayloads : SaveBegin("a", plot_data, 1)
    \/ SaveStep("a")
    \/ Begin("deleter", delete_begin(1, 1))
    \/ DeleteStep

RaceSpec == Init /\ [][RaceNext]_vars

(***************************************************************************)
(* The registries under request threads.  views.py imports the presenters  *)
(* package and binds presenter_registry at module level, so a view runs,   *)
(* and calls a getter, only after the package has been imported.            *)
(***************************************************************************)
Threads == {"t1", "t2"}

ImportPresenters ==
    /\ ~registries.imported
    /\ registries' = initialize_registry(registries)
    /\ lastFixtures' = <<>>
    /\ last' = Did("import", "", FALSE, 0, FALSE)
    /\ UNCHANGED <<plots, plotFixtures, stages, lightFixtures, nextPlotId, cache,
                   updated_at, categories, nextCategoryId, fixtureCategory, procs>>

GetterCall(thread, attribute) ==
    /\ registries.imported
    /\ IF thread \in DOMAIN procs THEN procs[thread].pc = "done" ELSE TRUE
    /\ procs' = [t \in DOMAIN procs \cup {thread} |->
                    IF t = thread THEN getter_begin(attribute) ELSE procs[t]]
    /\ lastFixtures' = <<>>
    /\ last' = Did("getter_call", attribute, FALSE, 0, FALSE)
    /\ UNCHANGED <<plots, plotFixtures, stages, lightFixtures, nextPlotId, cache,
                   updated_at, categories, nextCategoryId, fixtureCategory, registries>>

GetterStep(thread) ==
    /\ thread \in DOMAIN procs
    /\ procs[thread].pc # "done"
    /\ \E r \in {getter_step(registries, procs[thread])} :
           /\ registries' = r.reg
           /\ procs' = [procs EXCEPT ![thread] = r.proc]
    /\ lastFixtures' = <<>>
    /\ last' = Did("getter_step", "", FALSE, 0, FALSE)
    /\ UNCHANGED <<plots, plotFixtures, stages, lightFixtures, nextPlotId, cache,
                   updated_at, categories, nextCategoryId, fixtureCategory>>

RegistryNext ==
    \/ ImportPresenters
    \/ \E thread \in Threads, attribute \in Attributes : GetterCall(thread, attribute)
    \/ \E thread \in Threads : GetterStep(thread)

RegistrySpec == Init /\ [][RegistryNext]_vars

(***************************************************************************)
(* Properties.  Each quantifies over the callers and payloads of the       *)
(* operation it is about and applies the handler to the reachable store.   *)
(***************************************************************************)
ScalarFields == {"title", "show_name", "venue", "designer", "date", "plot_data"}

\* The rows a fixture list describes for a plot, one per entry.
RowsFor(plot, fixtures_data) ==
    [i \in 1..Len(fixtures_data) |-> NewPlotFixture(plot, fixtures_data[i])]

Resolvable(fixtures_data) ==
    \A i \in 1..Len(fixtures_data) : fixtures_data[i].fixture_id \in lightFixtures

Owned(plot_id, user) == plot_id \in DOMAIN plots /\ plots[plot_id].user = user

\* C1: a save by a user other than the owner that carries the plot's
\* identifier returns no plot with created = false, raises nothing, creates no
\* plot and leaves every stored plot and every placed fixture as it was.
C1_ForeignSaveNotFound ==
    \A plot_data \in UpdatePayloads, user \in Users :
        Foreign(plot_data.plot_id, user) =>
            \A r \in {create_or_update_plot(Store, plot_data, user)} :
                /\ r.ret = None /\ ~r.created /\ ~r.raised
                /\ r.st.plots = plots
                /\ r.st.plotFixtures = plotFixtures
                /\ r.st.nextPlotId = nextPlotId

\* A save on another user's plot was just refused.
C1_Witness ==
    /\ last.op = "create_or_update_plot"
    /\ last.foreign
    /\ last.ret = "not_found"
    /\ plotFixtures # Empty

\* C2: get_plot_by_id called with a user returns a plot only if a plot with
\* that identifier is stored and owned by that user.
C2_GetReturnsOnlyStoredOwned ==
    \A plot_id \in PlotIds, user \in Users :
        \A r \in {get_plot_by_id(Store, plot_id, user, TRUE)} :
            r.ret # None => Owned(plot_id, user)

\* The store of a run in which the plot was never there: without the plot, its
\* placed fixtures and its owner's cache entries for it.
StoreWithout(plot_id) ==
    [Store EXCEPT
        !.plots = [p \in DOMAIN plots \ {plot_id} |-> plots[p]],
        !.plotFixtures = [p \in DOMAIN plotFixtures \ {plot_id} |-> plotFixtures[p]],
        !.updated_at = WithoutPlots(@, {plot_id}),
        !.cache = [k \in {j \in DOMAIN cache :
                             j.plot # plot_id \/ j.user # plots[plot_id].user} |-> cache[k]]]

\* C3: what get_plot_by_id, create_or_update_plot (and handle_plot_save over
\* it), delete_plot and get_plot_with_fixtures return for the identifier of a
\* plot of another user is what they return when no plot has that identifier.
C3_ForeignLooksAbsent ==
    \A plot_id \in PlotIds, user \in Users :
        Foreign(plot_id, user) =>
            \A absent \in {StoreWithout(plot_id)} :
                /\ get_plot_by_id(Store, plot_id, user, TRUE).ret
                       = get_plot_by_id(absent, plot_id, user, TRUE).ret
                /\ delete_plot(Store, plot_id, user).ret
                       = delete_plot(absent, plot_id, user).ret
                /\ get_plot_with_fixtures(Store, plot_id, user).ret
                       = get_plot_with_fixtures(absent, plot_id, user).ret
                /\ \A plot_data \in {d \in UpdatePayloads : d.plot_id = plot_id} :
                       \A r \in {create_or_update_plot(Store, plot_data, user)},
                          a \in {create_or_update_plot(absent, plot_data, user)},
                          h \in {handle_plot_save(Store, plot_data, user)},
                          g \in {handle_plot_save(absent, plot_data, user)} :
                           /\ r.ret = a.ret /\ r.created = a.created /\ r.raised = a.raised
                           /\ h.success = g.success /\ h.status = g.status
                           /\ h.error = g.error /\ h.data = g.data

\* A delete_plot on another user's plot was just refused.
C3_Witness ==
    /\ last.op = "delete_plot"
    /\ last.foreign
    /\ last.ret = "false"

\* C4: a save of an existing plot sets the scalar fields its payload carries
\* and leaves every scalar field the payload lacks at its stored value.
C4_PartialUpdate ==
    \A plot_data \in UpdatePayloads, user \in Users :
        Owned(plot_data.plot_id, user) =>
            \A r \in {create_or_update_plot(Store, plot_data, user)} :
                (~r.raised /\ r.ret # None) =>
                    \A f \in ScalarFields :
                        r.st.plots[plot_data.plot_id][f] =
                            IF Has(plot_data, f) THEN plot_data[f]
                            ELSE plots[plot_data.plot_id][f]

\* C5: a save of an existing plot whose payload carries a fixture list, the
\* empty one included, with every entry resolvable leaves the plot with exactly
\* the rows of that list.
C5_FullReplacement ==
    \A plot_data \in UpdatePayloads, user \in Users :
        (/\ Owned(plot_data.plot_id, user)
         /\ Has(plot_data, "fixtures")
         /\ Resolvable(plot_data.fixtures)) =>
            \A r \in {create_or_update_plot(Store, plot_data, user)} :
                /\ ~r.raised /\ r.ret # None
                /\ FixturesOf(r.st.plotFixtures, plot_data.plot_id)
                       = RowsFor(r.ret, plot_data.fixtures)

\* C6: a save that returned a plot, followed at once by a save of that plot by
\* the same user with the same fixture list, leaves the plot's placed fixtures
\* as the first save left them (same count, same field values); for a
\* non-empty list they are the rows of the list, one per entry.
C6_ReplaceIdempotent ==
    \A plot_data \in Payloads, user \in Users :
        (/\ Has(plot_data, "fixtures")
         /\ Has(plot_data, "plot_id") \/ nextPlotId <= MaxPlots) =>
            \A first \in {create_or_update_plot(Store, plot_data, user)} :
                (~first.raised /\ first.ret # None) =>
                    \A second \in {create_or_update_plot(
                                       first.st, [plot_id |-> first.ret.id] @@ plot_data, user)} :
                        /\ ~second.raised /\ second.ret # None /\ ~second.created
                        /\ second.ret.id = first.ret.id
                        /\ FixturesOf(second.st.plotFixtures, first.ret.id)
                               = FixturesOf(first.st.plotFixtures, first.ret.id)
                        /\ plot_data.fixtures # <<>> =>
                               FixturesOf(second.st.plotFixtures, first.ret.id)
                                   = RowsFor(first.ret, plot_data.fixtures)

\* A save of a plot with a non-empty fixture list was just repeated.
C6_Witness ==
    /\ last.op = "create_or_update_plot"
    /\ last.ret = "updated"
    /\ last.repeat
    /\ Len(lastFixtures) > 1

\* C7: a save of an existing plot whose fixture list has an unresolvable entry
\* fails, and no row built from that list is stored for the plot afterwards:
\* the plot has its earlier rows or none.
C7_NoPartialInsert ==
    \A plot_data \in UpdatePayloads, user \in Users :
        (/\ Owned(plot_data.plot_id, user)
         /\ Has(plot_data, "fixtures")
         /\ ~Resolvable(plot_data.fixtures)) =>
            \A r \in {create_or_update_plot(Store, plot_data, user)} :
                /\ r.raised
                /\ \/ FixturesOf(r.st.plotFixtures, plot_data.plot_id) = <<>>
                   \/ FixturesOf(r.st.plotFixtures, plot_data.plot_id)
                          = FixturesOf(plotFixtures, plot_data.plot_id)

\* C8: however the replacement of a stored plot's fixtures by a non-empty list
\* ends, the plot has the complete old set or the complete new set.
C8_AtomicReplacement ==
    \A plot_data \in UpdatePayloads, user \in Users :
        (Owned(plot_data.plot_id, user) /\ FixturesProvided(plot_data)) =>
            \A r \in {create_or_update_plot(Store, plot_data, user)} :
                \/ FixturesOf(r.st.plotFixtures, plot_data.plot_id)
                       = FixturesOf(plotFixtures, plot_data.plot_id)
                \/ /\ Resolvable(plot_data.fixtures)
                   /\ FixturesOf(r.st.plotFixtures, plot_data.plot_id)
                          = RowsFor(plots[plot_data.plot_id], plot_data.fixtures)

\* C9: after a delete_plot that returned true no placed fixture of that plot
\* is stored, and a second delete_plot with the same arguments returns false
\* and changes nothing, in storage or in the cache.
C9_DeleteCascadesThenNoOp ==
    \A plot_id \in PlotIds, user \in Users :
        \A first \in {delete_plot(Store, plot_id, user)} :
            first.ret =>
                /\ plot_id \notin DOMAIN first.st.plots
                /\ FixturesOf(first.st.plotFixtures, plot_id) = <<>>
                /\ \A p \in DOMAIN first.st.plotFixtures :
                       \A i \in 1..Len(first.st.plotFixtures[p]) :
                           first.st.plotFixtures[p][i].plot # plot_id
                /\ \A second \in {delete_plot(first.st, plot_id, user)} :
                       ~second.ret /\ second.st = first.st

\* A delete_plot just removed a plot that had placed fixtures.
C9_Witness ==
    /\ last.op = "delete_plot"
    /\ last.ret = "true"
    /\ last.plot # 0
    /\ last.plot \notin DOMAIN plots

\* C10: delete_plot returns true only for a stored plot of the caller; when it
\* returns false every plot and every placed fixture is as before; when it
\* returns true that plot and its placed fixtures are gone and every other
\* plot, with its placed fixtures, is as before.
C10_DeleteOnlyOwn ==
    \A plot_id \in PlotIds, user \in Users :
        \A r \in {delete_plot(Store, plot_id, user)} :
            /\ r.ret => Owned(plot_id, user)
            /\ ~Owned(plot_id, user) => ~r.ret
            /\ ~r.ret => r.st.plots = plots /\ r.st.plotFixtures = plotFixtures
            /\ r.ret =>
                   /\ DOMAIN r.st.plots = DOMAIN plots \ {plot_id}
                   /\ DOMAIN r.st.plotFixtures = DOMAIN plotFixtures \ {plot_id}
                   /\ \A p \in DOMAIN r.st.plots : r.st.plots[p] = plots[p]
                   /\ \A p \in DOMAIN r.st.plotFixtures :
                          r.st.plotFixtures[p] = plotFixtures[p]

\* A delete_plot just removed one plot while another plot, with placed
\* fixtures, is still stored.
C10_Witness ==
    /\ last.op = "delete_plot"
    /\ last.ret = "true"
    /\ \E p \in DOMAIN plots : p \in DOMAIN plotFixtures

\* The store with the cache emptied.
ColdStore(st) == [st EXCEPT !.cache = Empty]

\* Each read of the owner returns from `st` what it returns from storage alone.
ReadsFresh(st, plot_id, user) ==
    /\ get_plot_by_id(st, plot_id, user, TRUE).ret
           = get_plot_by_id(st, plot_id, user, FALSE).ret
    /\ get_plot_data(st, plot_id, user).ret
           = get_plot_data(ColdStore(st), plot_id, user).ret
    /\ get_editor_context(st, plot_id, user).ret
           = get_editor_context(ColdStore(st), plot_id, user).ret
    /\ get_user_plots_context(st, user).ret
           = get_user_plots_context(ColdStore(st), user).ret

\* C11: after a successful save of a stored plot by its owner, through
\* handle_plot_save or create_or_update_plot, and after a successful
\* delete_plot, get_plot_by_id, get_plot_data, get_editor_context and
\* get_user_plots_context return to the owner what storage then holds.
C11_WritesInvalidateCache ==
    \A plot_id \in PlotIds, user \in Users :
        Owned(plot_id, user) =>
            /\ \A plot_data \in {d \in ViewPayloads \cup UpdatePayloads :
                                    Get(d, "plot_id", 0) = plot_id} :
                   /\ \A h \in {handle_plot_save(Store, plot_data, user)} :
                          h.success => ReadsFresh(h.st, plot_id, user)
                   /\ \A r \in {create_or_update_plot(Store, plot_data, user)} :
                          (~r.raised /\ r.ret # None) => ReadsFresh(r.st, plot_id, user)
            /\ \A d \in {delete_plot(Store, plot_id, user)} :
                   d.ret => ReadsFresh(d.st, plot_id, user)

\* What storage alone holds of a plot for a user: the answer of
\* get_plot_with_fixtures computed from the tables.
StoredPlotData(plot_id, user) ==
    LET plot == DbGetPlot(plots, plot_id, user) IN
    IF plot = None \/ plot.stage \notin stages THEN None
    ELSE [plot |-> [id |-> plot.id, title |-> plot.title, stage_id |-> plot.stage,
                    show_name |-> plot.show_name, venue |-> plot.venue,
                    designer |-> plot.designer, date |-> plot.date,
                    plot_data |-> plot.plot_data],
          fixtures |-> FixtureRecords(OrderByChannel(FixturesOf(plotFixtures, plot_id)),
                                      lightFixtures)]

\* C12: against an empty cache get_plot_by_id, get_plot_with_fixtures,
\* get_plot_data and get_user_plots_context return what a lookup in storage
\* with caching disabled returns.
C12_ColdCacheReads ==
    \A plot_id \in PlotIds, user \in Users :
        \A cold \in {ColdStore(Store)} :
            /\ get_plot_by_id(cold, plot_id, user, TRUE).ret
                   = get_plot_by_id(Store, plot_id, user, FALSE).ret
            /\ get_plot_by_id(cold, plot_id, user, TRUE).ret = DbGetPlot(plots, plot_id, user)
            /\ get_plot_with_fixtures(cold, plot_id, user).ret = StoredPlotData(plot_id, user)
            /\ get_plot_data(cold, plot_id, user).ret = StoredPlotData(plot_id, user)
            /\ get_user_plots_context(cold, user).ret
                   = [plots |-> get_plots_for_user(Store, user)]

\* A get_plot_with_fixtures just ran against an empty cache and returned a
\* plot that has placed fixtures.
C12_Witness ==
    /\ last.op = "get_plot_with_fixtures"
    /\ last.ret = "cold"
    /\ \E k \in DOMAIN cache : k.kind = "plot_id" /\ k.plot \in DOMAIN plotFixtures

\* What a save that creates a plot must leave: a new row under an identifier
\* no stored or cached plot has and none had before, owned by the saving user
\* and referencing the stage of the payload, the other rows being as before.
CreatedNew(r, plot_data, user) ==
    /\ ~r.raised /\ r.created /\ r.ret # None
    /\ r.ret.id \notin DOMAIN plots
    /\ r.ret.id >= nextPlotId
    /\ \A p \in DOMAIN plots : p < nextPlotId
    /\ \A k \in DOMAIN cache : k.plot # r.ret.id
    /\ DOMAIN r.st.plots = DOMAIN plots \cup {r.ret.id}
    /\ r.st.plots[r.ret.id] = r.ret
    /\ r.ret.user = user /\ r.ret.stage = plot_data.stage_id
    /\ \A p \in DOMAIN plots : r.st.plots[p] = plots[p]

\* C13 as stated: every save without a plot identifier whose stage identifier
\* resolves returns created = true and a newly persisted plot under a new
\* identifier, owned by the saving user and referencing that stage.
C13_CreateAlwaysSucceeds ==
    \A plot_data \in CreatePayloads, user \in Users :
        plot_data.stage_id \in stages =>
            \A r \in {create_or_update_plot(Store, plot_data, user)} :
                CreatedNew(r, plot_data, user)

\* C13, amended: the same for the saves whose fixture list, if they carry one,
\* has only entries that reference stored fixture types; through
\* handle_plot_save such a save with a valid title succeeds with the new
\* identifier.
C13_CreateSucceeds ==
    \A plot_data \in CreatePayloads, user \in Users :
        (/\ plot_data.stage_id \in stages
         /\ Has(plot_data, "fixtures") => Resolvable(plot_data.fixtures)) =>
            /\ \A r \in {create_or_update_plot(Store, plot_data, user)} :
                   CreatedNew(r, plot_data, user)
            /\ Has(plot_data, "title") =>
                   \A h \in {handle_plot_save(Store, plot_data, user)} :
                       h.success /\ h.status = 200 /\ h.data = {nextPlotId}

\* A save just created a plot after an earlier plot had been deleted.
C13_Witness ==
    /\ last.op = "create_or_update_plot"
    /\ last.ret = "created"
    /\ nextPlotId = 3
    /\ Cardinality(DOMAIN plots) = 1

\* C14: a save without a plot identifier whose stage identifier is missing or
\* names no stored Stage fails with a validation error (handle_plot_save
\* answers 400 "Validation failed") and creates no plot.
C14_NoStageFailsValidation ==
    \A plot_data \in StagelessPayloads \cup CreatePayloads, user \in Users :
        (~Has(plot_data, "stage_id") \/ plot_data.stage_id \notin stages) =>
            /\ \A r \in {create_or_update_plot(Store, plot_data, user)} :
                   /\ r.raised \/ r.ret = None
                   /\ r.st.plots = plots /\ r.st.nextPlotId = nextPlotId
            /\ Has(plot_data, "title") =>
                   \A h \in {handle_plot_save(Store, plot_data, user)} :
                       /\ ~h.success /\ h.status = 400 /\ h.error = "Validation failed"
                       /\ h.st.plots = plots /\ h.st.nextPlotId = nextPlotId

\* C15: a save that ends in failure (not found, validation error, or an
\* unresolvable fixture type) has created no plot and changed no field of a
\* stored plot.
C15_FailFastBeforeWrite ==
    \A plot_data \in Payloads, user \in Users :
        /\ \A r \in {create_or_update_plot(Store, plot_data, user)} :
               (r.raised \/ r.ret = None) => r.st.plots = plots
        /\ \A h \in {handle_plot_save(Store, plot_data, user)} :
               ~h.success => h.st.plots = plots

\* The instances the category forms can submit: a new one or a stored one,
\* with any name, element type and stored parent (or none).
CategoryInputs ==
    {[id |-> id, name |-> name, parent |-> parent, element_type |-> element_type] :
        id \in {0} \cup DOMAIN categories, name \in CategoryNames,
        parent \in {0} \cup DOMAIN categories, element_type \in ElementTypes}

Rejected(r) ==
    /\ r.error \notin {"ok", "diverges"}
    /\ r.categories = categories /\ r.nextCategoryId = nextCategoryId

\* C16: no stored category is reachable from itself along parent references,
\* and a save that would make a category its own ancestor is rejected with a
\* validation error, nothing being written.
C16_ParentChainAcyclic ==
    /\ \A c \in DOMAIN categories : categories[c].parent \notin Collect(categories, {c})
    /\ \A self \in CategoryInputs :
           (self.id # 0 /\ self.parent \in Collect(categories, {self.id})) =>
               Rejected(category_save(categories, nextCategoryId, self))

\* The re-parenting of a stored category under one of its descendants was just
\* rejected as circular.
C16_Witness ==
    /\ last.op = "category_save"
    /\ last.ret = "Circular reference detected in category hierarchy"
    /\ last.plot \in DOMAIN categories
    /\ \E c \in DOMAIN categories : categories[c].parent = last.plot

\* C17: every stored category with a parent has the parent's element type, and
\* a save that would give a category a parent of another element type is
\* rejected with a validation error, nothing being written.
C17_ParentSameElementType ==
    /\ \A c \in DOMAIN categories :
           categories[c].parent # 0 =>
               categories[categories[c].parent].element_type = categories[c].element_type
    /\ \A self \in CategoryInputs :
           (self.parent # 0 /\ categories[self.parent].element_type # self.element_type) =>
               Rejected(category_save(categories, nextCategoryId, self))

\* C18: get_ancestors of every stored category returns, and the list returned
\* is without repetition and does not contain the category.
C18_AncestorsTerminate ==
    \A c \in DOMAIN categories :
        \A a \in {get_ancestors(categories, c)} :
            /\ a.terminates
            /\ Len(a.ancestors) < Cardinality(DOMAIN categories)
            /\ \A i \in 1..Len(a.ancestors) : a.ancestors[i] # c
            /\ \A i, j \in 1..Len(a.ancestors) : a.ancestors[i] = a.ancestors[j] => i = j

\* A write that would have closed a cycle was just rejected, and some category
\* has two ancestors.
C18_Witness ==
    /\ last.op = "category_save"
    /\ last.ret = "Circular reference detected in category hierarchy"
    /\ \E c \in DOMAIN categories : Len(get_ancestors(categories, c).ancestors) = 2

\* C19: every stored PlotFixture references a stored plot and a stored fixture
\* type, and deleting a plot (delete_plot, BaseController.delete) or a fixture
\* type (delete_fixture) leaves no PlotFixture that references it.
C19_PlacedFixturesReference ==
    /\ \A p \in DOMAIN plotFixtures : \A i \in 1..Len(plotFixtures[p]) :
           /\ plotFixtures[p][i].plot = p
           /\ p \in DOMAIN plots
           /\ plotFixtures[p][i].fixture_type \in lightFixtures
    /\ \A f \in lightFixtures : \A r \in {delete_fixture(Store, f)} :
           /\ r.ret /\ f \notin r.st.lightFixtures
           /\ \A p \in DOMAIN r.st.plotFixtures : \A i \in 1..Len(r.st.plotFixtures[p]) :
                  r.st.plotFixtures[p][i].fixture_type # f
    /\ \A p \in DOMAIN plots :
           /\ \A r \in {base_delete_plot(Store, p)} :
                  r.ret /\ p \notin DOMAIN r.st.plots /\ p \notin DOMAIN r.st.plotFixtures
           /\ \A r \in {delete_plot(Store, p, plots[p].user)} :
                  r.ret /\ p \notin DOMAIN r.st.plots /\ p \notin DOMAIN r.st.plotFixtures

\* delete_fixture just removed a fixture type that was placed on a plot, and
\* the plot is still stored.
C19_Witness ==
    /\ last.op = "delete_fixture"
    /\ last.ret = "cascaded"
    /\ plots # Empty
    /\ lightFixtures = {}

\* The saves of a stored plot, with and without a stage identifier in the payload
RestagingPayloads ==
    {[plot_id |-> p] @@ g @@ b :
        p \in PlotIds,
        g \in {Empty, [stage_id |-> 1], [stage_id |-> 2]},
        b \in {Empty, FullScalars, [fixtures |-> <<FixtureA>>]}}

\* C20: every stored plot references a stored stage; after delete_stage no plot
\* of that stage remains; and a save leaves the stage of every stored plot as
\* it was, whatever stage the payload names.
C20_PlotsReferenceStage ==
    /\ \A p \in DOMAIN plots : plots[p].stage \in stages
    /\ \A s \in stages : \A r \in {delete_stage(Store, s)} :
           /\ r.ret /\ s \notin r.st.stages
           /\ \A p \in DOMAIN r.st.plots : r.st.plots[p].stage # s
    /\ \A user \in Users : \A plot_data \in RestagingPayloads :
           \A r \in {create_or_update_plot(Store, plot_data, user)} :
               \A p \in DOMAIN plots \cap DOMAIN r.st.plots :
                   r.st.plots[p].stage = plots[p].stage

\* delete_stage just removed a stage together with a plot on it and the
\* fixtures placed on that plot.
C20_Witness ==
    /\ last.op = "delete_stage"
    /\ last.ret = "cascaded"
    /\ stages = {}
    /\ plots = Empty

\* Position of a plot in the order of updated_at, most recent first
UpdatedRank(plot_id) == CHOOSE i \in 1..Len(updated_at) : updated_at[i] = plot_id

\* A listing holds exactly the stored plots of the user, each once, as stored,
\* most recently updated first.
ListsPlotsOf(listing, user) ==
    /\ \A i \in 1..Len(listing) :
           /\ listing[i].id \in DOMAIN plots
           /\ listing[i] = plots[listing[i].id]
           /\ listing[i].user = user
    /\ \A p \in DOMAIN plots :
           plots[p].user = user =>
               Cardinality({i \in 1..Len(listing) : listing[i].id = p}) = 1
    /\ \A i, j \in 1..Len(listing) :
           i < j => UpdatedRank(listing[i].id) < UpdatedRank(listing[j].id)

\* C21: for every user get_plots_for_user and get_user_plots_context return
\* exactly the plots the user owns now, most recently updated first.
C21_ListingOwnedNewestFirst ==
    \A user \in Users :
        /\ ListsPlotsOf(get_plots_for_user(Store, user), user)
        /\ ListsPlotsOf(get_user_plots_context(Store, user).ret.plots, user)

\* The records of the fetched rows from position i on, those of `failed` left out
RECURSIVE RecordsFrom(_, _, _)
RecordsFrom(fetched, failed, i) ==
    IF i > Len(fetched) THEN <<>>
    ELSE (IF i \in failed THEN <<>> ELSE <<FixtureRecord(fetched[i])>>)
         \o RecordsFrom(fetched, failed, i + 1)

\* C22: a get_plot_with_fixtures that found the plot returns the plot's scalar
\* data and one record for every fetched row whose formatting did not fail, in
\* the order fetched, whatever rows failed.
C22_ReadDegradesGracefully ==
    ("read" \in DOMAIN procs /\ procs["read"].pc = "done" /\ procs["read"].plot # None) =>
        \A proc \in {procs["read"]} :
            /\ proc.ret # None
            /\ proc.ret.plot = PlotRecord(proc.plot)
            /\ proc.ret.fixtures = RecordsFrom(proc.fetched, proc.failed, 1)
            /\ Len(proc.ret.fixtures) = Len(proc.fetched) - Cardinality(proc.failed)

\* A read has returned in which the formatting of one row failed and that of
\* another succeeded.
C22_Witness ==
    /\ "read" \in DOMAIN procs
    /\ procs["read"].pc = "done"
    /\ procs["read"].failed # {}
    /\ procs["read"].ret # None
    /\ Len(procs["read"].ret.fixtures) = 1

\* Both requests have returned a saved plot.
BothSaved == \A saver \in Savers : saver \in DOMAIN procs /\ procs[saver].ret = "updated"

\* C23: when two saves of one plot by one user have both returned, the stored
\* plot and its placed fixtures are what one of the two saves leaves when run
\* alone last: running that save once more changes neither.
C23_LastWriterWins ==
    BothSaved =>
        \E saver \in Savers :
            \E r \in {create_or_update_plot(Store, procs[saver].plot_data, procs[saver].user)} :
                /\ r.st.plots = plots
                /\ r.st.plotFixtures = plotFixtures

\* C24: no fixture type references a category that is not stored, and the
\* delete of a category leaves every fixture type stored, with a null category
\* where it referenced a category deleted and its category as it was otherwise.
C24_CategoryDeleteNullsReferences ==
    /\ DOMAIN fixtureCategory = lightFixtures
    /\ \A f \in lightFixtures : fixtureCategory[f] \in {0} \cup DOMAIN categories
    /\ \A id \in DOMAIN categories :
           \A r \in {category_delete(categories, fixtureCategory, id)} :
               /\ id \notin DOMAIN r.categories
               /\ DOMAIN r.fixtureCategory = lightFixtures
               /\ \A f \in lightFixtures :
                      /\ r.fixtureCategory[f] \in {0} \cup DOMAIN r.categories
                      /\ fixtureCategory[f] \in DOMAIN r.categories =>
                             r.fixtureCategory[f] = fixtureCategory[f]

\* A category was just deleted whose child was the category of a fixture type;
\* the fixture type is stored, without category.
C24_Witness ==
    /\ last.op = "category_delete"
    /\ last.ret = "nulled below"
    /\ \E f \in lightFixtures : fixtureCategory[f] = 0

\* The categories that have `id` among their ancestors
Below(id) ==
    {c \in DOMAIN categories :
        \E i \in 1..Len(get_ancestors(categories, c).ancestors) :
            get_ancestors(categories, c).ancestors[i] = id}

\* C25: get_descendants of a stored category lists exactly the categories that
\* have it among their ancestors, each once, and not the category itself.
C25_DescendantsExact ==
    \A c \in DOMAIN categories :
        \A d \in {get_descendants(categories, c)} :
            /\ {d[i] : i \in 1..Len(d)} = Below(c)
            /\ Len(d) = Cardinality(Below(c))
            /\ \A i \in 1..Len(d) : d[i] # c

\* A category has a child and a grandchild.
C25_Witness ==
    \E c \in DOMAIN categories :
        /\ Len(get_descendants(categories, c)) = 2
        /\ \E g \in DOMAIN categories :
               categories[g].parent # 0 /\ categories[categories[g].parent].parent = c

\* Identifiers asked of the catalog accessors, stored and not
CatalogIds == {1, 2}

\* C26: list-all of fixture types, stage templates and stages returns the
\* stored rows of the kind, and get-by-id of an identifier that is not stored
\* returns None.
C26_CatalogAccessors ==
    /\ get_all_fixtures(Store) = Returned(lightFixtures)
    /\ get_all_templates(Store) = Returned(InitialTemplates)
    /\ get_all_stages(Store) = Returned(stages)
    /\ \A id \in CatalogIds :
           /\ id \notin stages => get_stage_by_id(Store, id) = None
           /\ id \notin lightFixtures =>
                  get_fixture_by_id(Store, fixtureCategory, id).ret = None
    /\ get_template_by_id(Store, "side wash") = None

\* The cached read and a save or a delete_plot have been started, and every
\* call started has returned.
RaceOver ==
    /\ "reader" \in DOMAIN procs
    /\ DOMAIN procs # {"reader"}
    /\ \A name \in DOMAIN procs : procs[name].pc = "done"

\* C27: once a cached get_plot_by_id and a save or delete_plot of the same
\* plot by the same user have both returned, an entry the cache holds for the
\* plot is the stored plot.
C27_NoStaleEntryAfterRace ==
    RaceOver =>
        \A plot_id \in PlotIds, user \in Users :
            \A entry \in {CacheGet(cache, PlotKey(plot_id, user))} :
                entry # None => (plot_id \in DOMAIN plots /\ entry = plots[plot_id])

\* C28: a cached get_plot_by_id returns no plot that is not stored, and a save
\* that carries the identifier of a plot that is not stored stores no plot.
C28_RemovedPlotStaysRemoved ==
    \A plot_id \in PlotIds \ DOMAIN plots, user \in Users :
        /\ get_plot_by_id(Store, plot_id, user, TRUE).ret = None
        /\ \A plot_data \in {d \in UpdatePayloads : d.plot_id = plot_id} :
               \A r \in {create_or_update_plot(Store, plot_data, user)} :
                   /\ r.ret = None
                   /\ r.st.plots = plots
                   /\ r.st.plotFixtures = plotFixtures

\* C29: a save whose payload carries no fixture list, through
\* create_or_update_plot or handle_plot_save, leaves every placed fixture as it
\* was; the placed fixtures change only under a payload with a fixture list.
C29_NoListKeepsFixtures ==
    \A plot_data \in UpdatePayloads, user \in Users :
        ~Has(plot_data, "fixtures") =>
            /\ \A r \in {create_or_update_plot(Store, plot_data, user)} :
                   r.st.plotFixtures = plotFixtures
            /\ \A h \in {handle_plot_save(Store, plot_data, user)} :
                   h.st.plotFixtures = plotFixtures

\* The owner of a plot with placed fixtures has just saved it with the payload
\* that carries a title and a venue and no fixture list.
C29_Witness ==
    /\ last.op = "handle_plot_save"
    /\ last.ret = "saved"
    /\ 1 \in DOMAIN plots
    /\ plots[1].title = "Act II"
    /\ 1 \in DOMAIN plotFixtures

\* C30: for each registry class and each getter of a registry, at most one
\* object is ever built and every call, of every thread, returns that object.
C30_RegistriesAreSingletons ==
    \A a \in Attributes :
        /\ registries.created[a] <= 1
        /\ Cardinality(registries.returned[a]) <= 1
        /\ \A thread \in DOMAIN procs :
               (procs[thread].attribute = a /\ procs[thread].pc = "done") =>
                   procs[thread].ret = 1

\* Two threads are in the same getter at once: one has returned the registry
\* while the other is between its test and its return.
C30_Witness ==
    /\ DOMAIN procs = Threads
    /\ procs["t1"].attribute = "ServiceRegistry._instance"
    /\ procs["t2"].attribute = "ServiceRegistry._instance"
    /\ procs["t1"].pc = "return"
    /\ procs["t2"].pc = "done"
    /\ procs["t2"].ret = 1
====
